---- MODULE Spec2Model ----
(***************************************************************************)
(* mix-encryption: SM2 + SM4 hybrid encryption with signed envelopes.      *)
(* The model follows the MixEncryption class (src/unnamed/part_002) and    *)
(* the documented renewal handler `send` (src/unnamed/part_004).           *)
(*                                                                         *)
(* The library primitives (sm-crypto-v2, md5, JSON) are modelled           *)
(* symbolically: a ciphertext is a term that names the key it was made     *)
(* under, a signature a term that names the signing key and the digest.    *)
(* A primitive handed an empty key throws.                                 *)
(***************************************************************************)
EXTENDS Integers, Sequences, FiniteSets, TLC

(* ------------------------------ bounds --------------------------------- *)
\* number of key pairs sm2.generateKeyPairHex may hand out
MaxKeys == 4
\* number of strings the random source may hand out
MaxSym == 2
\* number of renewKeyPair calls that may be suspended on one store
MaxPending == 2

Stores == {"A", "B"}
\* EncryptionOption.cipherMode values given at construction
CipherModes == {0, 1}

(* ------------------------------- values -------------------------------- *)
\* the empty string "" of a key field
NoKey == [kind |-> "empty", id |-> 0]
Pub(k) == [kind |-> "pub", id |-> k]
Priv(k) == [kind |-> "priv", id |-> k]
\* JavaScript's !key for a string
IsFalsy(key) == key.kind = "empty"

\* JavaScript values handed to encrypt or returned by decrypt
Obj(n) == [kind |-> "object", val |-> n, key |-> NoKey, undef |-> FALSE]
\* an object holding a member whose value is undefined
ObjUndef(n) == [kind |-> "object", val |-> n, key |-> NoKey, undef |-> TRUE]
\* { key: publicKey }
KeyObj(publicKey) == [kind |-> "object", val |-> 0, key |-> publicKey, undef |-> FALSE]
Null == [kind |-> "null", val |-> 0, key |-> NoKey, undef |-> FALSE]
Scalar(n) == [kind |-> "scalar", val |-> n, key |-> NoKey, undef |-> FALSE]
Undefined == [kind |-> "undefined", val |-> 0, key |-> NoKey, undef |-> FALSE]

\* typeof v === "object" && v !== null
IsObject(v) == v.kind = "object"

\* JSON.stringify drops members whose value is undefined
JsonStringify(v) == [json |-> [v EXCEPT !.undef = FALSE]]
JsonParse(str) == str.json

\* md5 as a collision-free tag of the text
MD5(str) == [md5 |-> str]
\* md5 throws on a message that is not a string (JSON.stringify(undefined))
MD5Throws(str) == str.json.kind = "undefined"

(* ---------------------------- primitives ------------------------------- *)
\* results of a call: a returned value or a thrown error, with the library
\* calls made on the way, in order
Nothing == [kind |-> "nothing"]
Ok(value, calls) == [out |-> "ok", err |-> "", value |-> value, calls |-> calls]
Throw(err, calls) == [out |-> "throw", err |-> err, value |-> Nothing, calls |-> calls]
\* an error thrown by sm-crypto-v2, md5 or JSON rather than by the class
LibraryError == "library error"

\* hex strings handed out by the random source: the n-th draw, hexLen characters
Sym(n, len) == [id |-> n, hexLen |-> len]
\* the empty string sm2.doDecrypt returns when it cannot unwrap
NoSym == Sym(0, 0)

\* signatures
Sig(k, msg) == [kind |-> "sig", signer |-> k, msg |-> msg]
\* a missing signValueHex member
NoSig == [kind |-> "undefined", signer |-> 0, msg |-> MD5(JsonStringify(Undefined))]
\* a hex string that is no signature of any key
JunkSig == [kind |-> "junk", signer |-> 0, msg |-> MD5(JsonStringify(Undefined))]

\* sm2.doSignature(msg, privateKey, {hash: true})
Sm2SignThrows(privateKey) == privateKey.kind # "priv"
Sm2Sign(msg, privateKey) == Sig(privateKey.id, msg)
\* sm2.doVerifySignature(msg, signValueHex, publicKey, {hash: true})
Sm2VerifyThrows(sig, publicKey) == publicKey.kind # "pub" \/ sig.kind = "undefined"
Sm2Verify(msg, sig, publicKey) ==
  sig.kind = "sig" /\ sig.signer = publicKey.id /\ sig.msg = msg

\* sm2.doEncrypt(msg, publicKey, cipherMode)
Sm2EncryptThrows(publicKey) == publicKey.kind # "pub"
Sm2Encrypt(msg, publicKey, mode) ==
  [kind |-> "sm2", pub |-> publicKey.id, mode |-> mode, msg |-> msg]
\* a string that is no SM2 ciphertext
JunkWrapped == [kind |-> "junk", pub |-> 0, mode |-> 0, msg |-> NoSym]
\* sm2.doDecrypt(secretKey, privateKey, cipherMode, {output: "string"}):
\* the empty string when the key or the mode is not the one it was made with
Sm2DecryptThrows(secretKey, privateKey) ==
  privateKey.kind # "priv" \/ secretKey.kind # "sm2"
Sm2Decrypt(secretKey, privateKey, mode) ==
  IF secretKey.pub = privateKey.id /\ secretKey.mode = mode
  THEN secretKey.msg
  ELSE NoSym

\* the JSON value { data, signValueHex }; a missing member is undefined
Envelope(data, sig) == [shape |-> "object", data |-> data, signValueHex |-> sig]
\* the JSON value null
NullEnvelope == [shape |-> "null", data |-> Undefined, signValueHex |-> NoSig]
\* JSON.stringify of { data, signValueHex } and JSON.parse of the text
JsonStringifyReq(req) == [json |-> [req EXCEPT !.data = JsonParse(JsonStringify(req.data))]]

\* sm4.encrypt(msg, key, {output: "string"})
Sm4Encrypt(msg, key) == [kind |-> "sm4", key |-> key, plain |-> msg]
\* the empty string as a cipherText
EmptyCipherText ==
  [kind |-> "empty", key |-> NoSym, plain |-> JsonStringifyReq(Envelope(Undefined, NoSig))]
\* sm4.decrypt(msg, key, {output: "string"}) throws unless key is the key
\* the text was encrypted under
Sm4DecryptThrows(msg, key) == msg.kind # "sm4" \/ key.id = 0 \/ msg.key # key
Sm4Decrypt(msg, key) == msg.plain

(* ------------------------- class MixEncryption ------------------------- *)
\* new MixEncryption({cipherMode}): the key fields default to ""
NewStore(cipherMode) ==
  [cipherMode |-> cipherMode, selfPriKey |-> NoKey, selfPubKey |-> NoKey,
   partnerKey |-> NoKey]
\* the session state (selfPriKey, selfPubKey, partnerKey)
Triple(st) == <<st.selfPriKey, st.selfPubKey, st.partnerKey>>

Min(a, b) == IF a < b THEN a ELSE b
\* randomStr(length): ceil(length / 2) random bytes, two hex characters each,
\* cut to length characters; n names the draw
randomStr(length, n) ==
  LET byteLength == (length + 1) \div 2
  IN Sym(n, Min(2 * byteLength, length))
\* the argument generateSM4key passes to randomStr
SM4KeyLength == 16
\* a generateSM4key that hands out one key, drawn once
generateSM4keyCached(n) == randomStr(SM4KeyLength, 1)

generateSM4key(n) == randomStr(SM4KeyLength, n)

\* a doSign that signs the JSON text itself, not its MD5 digest
doSignNoDigest(st, request) ==
  LET str == JsonStringify(request)
      calls == <<"sm2.doSignature">>
  IN IF Sm2SignThrows(st.selfPriKey)
     THEN Throw(LibraryError, calls)
     ELSE Ok(Sm2Sign(str, st.selfPriKey), calls)

doSign(st, request) ==
  LET str == JsonStringify(request)
      calls == <<"md5", "sm2.doSignature">>
  IN IF Sm2SignThrows(st.selfPriKey)
     THEN Throw(LibraryError, calls)
     ELSE Ok(Sm2Sign(MD5(str), st.selfPriKey), calls)

\* a doVerifySign that verifies under the local public key
doVerifySignUnderSelf(st, msg, signValueHex) ==
  IF Sm2VerifyThrows(signValueHex, st.selfPubKey)
  THEN Throw(LibraryError, <<"sm2.doVerifySignature">>)
  ELSE Ok([flag |-> Sm2Verify(msg, signValueHex, st.selfPubKey)],
          <<"sm2.doVerifySignature">>)

doVerifySign(st, msg, signValueHex) ==
  IF Sm2VerifyThrows(signValueHex, st.partnerKey)
  THEN Throw(LibraryError, <<"sm2.doVerifySignature">>)
  ELSE Ok([flag |-> Sm2Verify(msg, signValueHex, st.partnerKey)],
          <<"sm2.doVerifySignature">>)

\* the sm2EnCrypto of the earlier revision, which wraps under the local
\* public key
sm2EnCryptoUnderSelf(st, key) ==
  IF Sm2EncryptThrows(st.selfPubKey)
  THEN Throw(LibraryError, <<"sm2.doEncrypt">>)
  ELSE Ok(Sm2Encrypt(key, st.selfPubKey, st.cipherMode), <<"sm2.doEncrypt">>)

sm2EnCrypto(st, key) ==
  IF Sm2EncryptThrows(st.partnerKey)
  THEN Throw(LibraryError, <<"sm2.doEncrypt">>)
  ELSE Ok(Sm2Encrypt(key, st.partnerKey, st.cipherMode), <<"sm2.doEncrypt">>)

\* an sm2DeCrypto without the guard on the private key
sm2DeCryptoUnguarded(st, secretKey) ==
  IF Sm2DecryptThrows(secretKey, st.selfPriKey)
  THEN Throw(LibraryError, <<"sm2.doDecrypt">>)
  ELSE Ok(Sm2Decrypt(secretKey, st.selfPriKey, st.cipherMode), <<"sm2.doDecrypt">>)

sm2DeCrypto(st, secretKey) ==
  IF IsFalsy(st.selfPriKey)
  THEN Throw("Private key not initialized", <<>>)
  ELSE IF Sm2DecryptThrows(secretKey, st.selfPriKey)
  THEN Throw(LibraryError, <<"sm2.doDecrypt">>)
  ELSE Ok(Sm2Decrypt(secretKey, st.selfPriKey, st.cipherMode), <<"sm2.doDecrypt">>)

sm4EnCrypto(st, request, encryptKey) ==
  LET signed == doSign(st, request)
  IN IF signed.out = "throw"
     THEN signed
     ELSE Ok(Sm4Encrypt(JsonStringifyReq(Envelope(request, signed.value)), encryptKey),
             signed.calls \o <<"sm4.encrypt">>)

sm4DeCrypto(responseString, deCryptoKey) ==
  IF responseString.kind # "empty"
  THEN IF Sm4DecryptThrows(responseString, deCryptoKey)
       THEN Throw(LibraryError, <<"sm4.decrypt">>)
       ELSE Ok(JsonParse(Sm4Decrypt(responseString, deCryptoKey)), <<"sm4.decrypt">>)
  ELSE Ok(Envelope(Undefined, NoSig), <<>>)

\* a mixCryptoEnCrypto without the guard on the public key
mixCryptoEnCryptoUnguarded(st, requestData, n) ==
  IF ~IsObject(requestData)
  THEN Throw("requestData must be an Object", <<>>)
  ELSE
    LET encryptKey == generateSM4key(n)
        drawn == <<"getRandomValues">>
        encryptedData == sm4EnCrypto(st, requestData, encryptKey)
        secretSM4Key == sm2EnCrypto(st, encryptKey)
    IN IF encryptedData.out = "throw"
       THEN Throw(encryptedData.err, drawn \o encryptedData.calls)
       ELSE IF secretSM4Key.out = "throw"
       THEN Throw(secretSM4Key.err, drawn \o encryptedData.calls \o secretSM4Key.calls)
       ELSE Ok([encryptedData |-> encryptedData.value, encryptKey |-> secretSM4Key.value],
               drawn \o encryptedData.calls \o secretSM4Key.calls)

\* a mixCryptoEnCrypto whose guard looks at the partner key
mixCryptoEnCryptoGuardsPartner(st, requestData, n) ==
  IF IsFalsy(st.partnerKey)
  THEN Throw("Public key not initialized", <<>>)
  ELSE IF ~IsObject(requestData)
  THEN Throw("requestData must be an Object", <<>>)
  ELSE
    LET encryptKey == generateSM4key(n)
        drawn == <<"getRandomValues">>
        encryptedData == sm4EnCrypto(st, requestData, encryptKey)
        secretSM4Key == sm2EnCrypto(st, encryptKey)
    IN IF encryptedData.out = "throw"
       THEN Throw(encryptedData.err, drawn \o encryptedData.calls)
       ELSE IF secretSM4Key.out = "throw"
       THEN Throw(secretSM4Key.err, drawn \o encryptedData.calls \o secretSM4Key.calls)
       ELSE Ok([encryptedData |-> encryptedData.value, encryptKey |-> secretSM4Key.value],
               drawn \o encryptedData.calls \o secretSM4Key.calls)

\* a mixCryptoEnCrypto that looks at the payload before the key
mixCryptoEnCryptoPayloadFirst(st, requestData, n) ==
  IF ~IsObject(requestData)
  THEN Throw("requestData must be an Object", <<>>)
  ELSE IF IsFalsy(st.selfPubKey)
  THEN Throw("Public key not initialized", <<>>)
  ELSE
    LET encryptKey == generateSM4key(n)
        drawn == <<"getRandomValues">>
        encryptedData == sm4EnCrypto(st, requestData, encryptKey)
        secretSM4Key == sm2EnCrypto(st, encryptKey)
    IN IF encryptedData.out = "throw"
       THEN Throw(encryptedData.err, drawn \o encryptedData.calls)
       ELSE IF secretSM4Key.out = "throw"
       THEN Throw(secretSM4Key.err, drawn \o encryptedData.calls \o secretSM4Key.calls)
       ELSE Ok([encryptedData |-> encryptedData.value, encryptKey |-> secretSM4Key.value],
               drawn \o encryptedData.calls \o secretSM4Key.calls)

\* mixCryptoEnCrypto(requestData); n names the random draw it makes
mixCryptoEnCrypto(st, requestData, n) ==
  IF IsFalsy(st.selfPubKey)
  THEN Throw("Public key not initialized", <<>>)
  ELSE IF ~IsObject(requestData)
  THEN Throw("requestData must be an Object", <<>>)
  ELSE
    LET encryptKey == generateSM4key(n)
        drawn == <<"getRandomValues">>
        encryptedData == sm4EnCrypto(st, requestData, encryptKey)
        secretSM4Key == sm2EnCrypto(st, encryptKey)
    IN IF encryptedData.out = "throw"
       THEN Throw(encryptedData.err, drawn \o encryptedData.calls)
       ELSE IF secretSM4Key.out = "throw"
       THEN Throw(secretSM4Key.err, drawn \o encryptedData.calls \o secretSM4Key.calls)
       ELSE Ok([encryptedData |-> encryptedData.value, encryptKey |-> secretSM4Key.value],
               drawn \o encryptedData.calls \o secretSM4Key.calls)

\* whether mixCryptoEnCrypto reaches generateSM4key
DrawsKey(st, requestData) == ~IsFalsy(st.selfPubKey) /\ IsObject(requestData)

\* a mixCryptoDeCrypto that verifies whatever needVerifySign is
mixCryptoDeCryptoAlwaysVerifies(st, responseData, secretSM4Key, needVerifySign) ==
  LET decryptKey == sm2DeCrypto(st, secretSM4Key)
  IN IF decryptKey.out = "throw" THEN decryptKey ELSE
  LET result == sm4DeCrypto(responseData, decryptKey.value)
      calls1 == decryptKey.calls \o result.calls
  IN IF result.out = "throw" THEN Throw(result.err, calls1) ELSE
  IF result.value.shape = "null" THEN Throw(LibraryError, calls1) ELSE
  LET signValueHex == result.value.signValueHex
      data == result.value.data
      str == JsonStringify(data)
  IN IF MD5Throws(str) THEN Throw(LibraryError, calls1 \o <<"md5">>) ELSE
  LET verifySignFlag == doVerifySign(st, MD5(str), signValueHex)
      calls2 == calls1 \o <<"md5">> \o verifySignFlag.calls
  IN IF verifySignFlag.out = "throw" THEN Throw(verifySignFlag.err, calls2)
     ELSE IF verifySignFlag.value.flag THEN Ok(data, calls2)
     ELSE Throw("signValueHex not match", calls2)

\* the mixCryptoDeCrypto of the earliest revision, which verifies nothing
mixCryptoDeCryptoUnverified(st, responseData, secretSM4Key, needVerifySign) ==
  LET decryptKey == sm2DeCrypto(st, secretSM4Key)
  IN IF decryptKey.out = "throw" THEN decryptKey ELSE
  LET result == sm4DeCrypto(responseData, decryptKey.value)
      calls1 == decryptKey.calls \o result.calls
  IN IF result.out = "throw" THEN Throw(result.err, calls1) ELSE
  IF result.value.shape = "null" THEN Throw(LibraryError, calls1) ELSE
  Ok(result.value.data, calls1)

\* mixCryptoDeCrypto(responseData, secretSM4Key, needVerifySign)
mixCryptoDeCrypto(st, responseData, secretSM4Key, needVerifySign) ==
  LET decryptKey == sm2DeCrypto(st, secretSM4Key)
  IN IF decryptKey.out = "throw" THEN decryptKey ELSE
  LET result == sm4DeCrypto(responseData, decryptKey.value)
      calls1 == decryptKey.calls \o result.calls
  IN IF result.out = "throw" THEN Throw(result.err, calls1) ELSE
  IF result.value.shape = "null" THEN Throw(LibraryError, calls1) ELSE
  LET signValueHex == result.value.signValueHex
      data == result.value.data
      str == JsonStringify(data)
  IN IF ~needVerifySign THEN Ok(data, calls1) ELSE
  IF MD5Throws(str) THEN Throw(LibraryError, calls1 \o <<"md5">>) ELSE
  LET verifySignFlag == doVerifySign(st, MD5(str), signValueHex)
      calls2 == calls1 \o <<"md5">> \o verifySignFlag.calls
  IN IF verifySignFlag.out = "throw" THEN Throw(verifySignFlag.err, calls2)
     ELSE IF verifySignFlag.value.flag THEN Ok(data, calls2)
     ELSE Throw("signValueHex not match", calls2)

\* the generateSM2Key of the earliest revision, which returns the pair and
\* stores nothing
generateSM2KeyNotStored(st, k) == st

\* generateSM2Key(): k names the pair sm2.generateKeyPairHex returns
generateSM2Key(st, k) ==
  [st EXCEPT !.selfPriKey = Priv(k), !.selfPubKey = Pub(k)]

\* acceptPartnerKey(key)
acceptPartnerKeyThrows(key) == IsFalsy(key)
\* an acceptPartnerKey that keeps a partner key already stored
acceptPartnerKeyKeepsFirst(st, key) ==
  IF IsFalsy(st.partnerKey) THEN [st EXCEPT !.partnerKey = key] ELSE st

acceptPartnerKey(st, key) == [st EXCEPT !.partnerKey = key]

\* a resetKeyPair that leaves the private key
resetKeyPairKeepsPrivate(st) ==
  [st EXCEPT !.selfPubKey = NoKey, !.partnerKey = NoKey]

\* resetKeyPair()
resetKeyPair(st) ==
  [st EXCEPT !.selfPubKey = NoKey, !.selfPriKey = NoKey, !.partnerKey = NoKey]

\* a commit that gives way to a resetKeyPair made during the suspension
renewCommitUnlessCleared(st, privateKey, publicKey, newPartnerKey) ==
  IF IsFalsy(st.selfPubKey)
  THEN st
  ELSE [st EXCEPT !.selfPriKey = privateKey, !.selfPubKey = publicKey,
                  !.partnerKey = newPartnerKey]

\* a commit that leaves the private key held before
renewCommitPublicOnly(st, privateKey, publicKey, newPartnerKey) ==
  [st EXCEPT !.selfPubKey = publicKey, !.partnerKey = newPartnerKey]

\* a commit that replaces the key pair and leaves the partner key
renewCommitKeysOnly(st, privateKey, publicKey, newPartnerKey) ==
  [st EXCEPT !.selfPriKey = privateKey, !.selfPubKey = publicKey]

\* the last three statements of renewKeyPair, run when sendCallBack resolves
renewCommit(st, privateKey, publicKey, newPartnerKey) ==
  [st EXCEPT !.selfPriKey = privateKey, !.selfPubKey = publicKey,
             !.partnerKey = newPartnerKey]

\* a handler that returns its new public key and does not accept the key the
\* envelope carries
sendWithoutAccept(server, encryptedData, k) ==
  LET res == mixCryptoDeCrypto(server, encryptedData.encryptedData,
                               encryptedData.encryptKey, TRUE)
      generated == generateSM2Key(server, k)
  IN IF res.out = "throw"
     THEN [out |-> "throw", err |-> res.err, server |-> server, ret |-> NoKey,
           keys |-> 0]
     ELSE [out |-> "ok", err |-> "", server |-> generated, ret |-> Pub(k), keys |-> 1]

\* the handler `send` of the renewal test, run on the server store: decrypt
\* with verification, generate a key pair (named k), accept the key carried
\* by the envelope, return the new public key
send(server, encryptedData, k) ==
  LET res == mixCryptoDeCrypto(server, encryptedData.encryptedData,
                               encryptedData.encryptKey, TRUE)
      generated == generateSM2Key(server, k)
  IN IF res.out = "throw"
     THEN [out |-> "throw", err |-> res.err, server |-> server, ret |-> NoKey,
           keys |-> 0]
     ELSE IF acceptPartnerKeyThrows(res.value.key)
     THEN [out |-> "throw", err |-> "partner public key must be a string",
           server |-> generated, ret |-> NoKey, keys |-> 1]
     ELSE [out |-> "ok", err |-> "", server |-> acceptPartnerKey(generated, res.value.key),
           ret |-> Pub(k), keys |-> 1]

(* ----------------------------- the system ------------------------------ *)
VARIABLES
  store,    \* store[s]: the MixEncryption instance of peer s
  keygen,   \* key pairs sm2.generateKeyPairHex has handed out
  drawn,    \* strings the random source has handed out
  sent,     \* results of mixCryptoEnCrypto, with the call that made each
  pending,  \* pending[s]: the renewKeyPair calls of s suspended at the await
  last,     \* the last call: its arguments, the store before it, its result
  instance, \* instance[p]: the module variable `instance` of process p
  handle    \* handle[h]: the store the caller's constant h refers to

vars == <<store, keygen, drawn, sent, pending, last, instance, handle>>

\* no store
None == "none"
\* the constants the callers keep what getCryptoInstance returns in
Handles == {"client", "server"}
\* client and server run in a process of their own: each process has made
\* its one store, A the client's and B the server's
TwoProcesses ==
  /\ instance = [p \in Stores |-> p]
  /\ handle = [h \in Handles |-> IF h = "client" THEN "A" ELSE "B"]

\* reasons the promise returned by sendCallBack may reject with
Failures == {"network down", "timeout"}

\* payloads callers hand to mixCryptoEnCrypto
Payloads == {Obj(1), ObjUndef(1), Null, Scalar(1)}

\* strings callers hand over as a partner key: none, a public key of a store,
\* a key carried by an envelope
KeyInputs ==
  {NoKey} \cup {store[t].selfPubKey : t \in Stores}
          \cup {m.requestData.key : m \in sent}

Init ==
  /\ \E c \in CipherModes : store = [s \in Stores |-> NewStore(IF s = "A" THEN 1 ELSE c)]
  /\ keygen = 0
  /\ drawn = 0
  /\ sent = {}
  /\ pending = [s \in Stores |-> {}]
  /\ last = [op |-> "constructor", store |-> "A", out |-> "ok", err |-> "",
             calls |-> <<>>, arg |-> Nothing, value |-> Nothing]
  /\ TwoProcesses

Call(op, s, arg, out, err, calls, value) ==
  [op |-> op, store |-> s, out |-> out, err |-> err, calls |-> calls,
   arg |-> arg, value |-> value]

GenerateSM2Key(s) ==
  /\ keygen < MaxKeys
  /\ LET k == keygen + 1 IN
     /\ store' = [store EXCEPT ![s] = generateSM2Key(store[s], k)]
     /\ keygen' = k
     /\ last' = Call("generateSM2Key", s, Nothing, "ok", "",
                      <<"sm2.generateKeyPairHex">>,
                      [publicKey |-> Pub(k), privateKey |-> Priv(k)])
  /\ UNCHANGED <<drawn, sent, pending, instance, handle>>

AcceptPartnerKey(s) ==
  \E key \in KeyInputs :
    /\ IF acceptPartnerKeyThrows(key)
       THEN /\ last' = Call("acceptPartnerKey", s, [key |-> key], "throw",
                             "partner public key must be a string", <<>>, Nothing)
            /\ UNCHANGED store
       ELSE /\ last' = Call("acceptPartnerKey", s, [key |-> key], "ok", "", <<>>,
                             Nothing)
            /\ store' = [store EXCEPT ![s] = acceptPartnerKey(store[s], key)]
    /\ UNCHANGED <<keygen, drawn, sent, pending, instance, handle>>

ResetKeyPair(s) ==
  /\ store' = [store EXCEPT ![s] = resetKeyPair(store[s])]
  /\ last' = Call("resetKeyPair", s, Nothing, "ok", "", <<>>, Nothing)
  /\ UNCHANGED <<keygen, drawn, sent, pending, instance, handle>>

\* what the model keeps of a result of mixCryptoEnCrypto
Sent(s, requestData, env) ==
  [env |-> env, requestData |-> requestData, from |-> s]

MixCryptoEnCrypto(s) ==
  \E requestData \in Payloads :
    LET res == mixCryptoEnCrypto(store[s], requestData, drawn + 1)
        draws == DrawsKey(store[s], requestData)
    IN /\ draws => drawn < MaxSym
       /\ drawn' = IF draws THEN drawn + 1 ELSE drawn
       /\ sent' = IF res.out = "ok"
                   THEN sent \cup {Sent(s, requestData, res.value)}
                   ELSE sent
       /\ last' = Call("mixCryptoEnCrypto", s, [requestData |-> requestData],
                        res.out, res.err, res.calls, res.value)
       /\ UNCHANGED <<store, keygen, pending, instance, handle>>

\* a symmetric key of a party outside the stores
OutsiderSym == Sym(-1, 32)
\* signatures carried by the envelopes sent so far
SeenSigs == {m.env.encryptedData.plain.json.signValueHex : m \in sent}
\* envelope texts a party outside the stores may build
ForgedBodies ==
  {Envelope(d, sg) : d \in {Obj(1), Obj(2)}, sg \in SeenSigs \cup {JunkSig}}
    \cup {Envelope(Obj(1), NoSig), NullEnvelope}
\* texts a changed cipherText of envelope e may still decode to under the key
\* of e: other data with the signature of e, the data of e with another
\* signature
GarbledBodies(e) ==
  LET env == JsonParse(e.encryptedData.plain)
  IN {Envelope(d, env.signValueHex) : d \in {Obj(1), Obj(2)} \ {env.data}}
       \cup {Envelope(env.data, JunkSig)}
\* (cipherText, wrappedKey) pairs handed to mixCryptoDeCrypto of s: envelopes
\* sent so far, whole, with a part replaced or with a changed cipherText, and
\* envelopes built for s by an outsider
DecryptInputs(s) ==
  LET envs == {m.env : m \in sent}
      mixed == {<<e1.encryptedData, e2.encryptKey>> : e1 \in envs, e2 \in envs}
      cut == {<<EmptyCipherText, e.encryptKey>> : e \in envs}
               \cup {<<e.encryptedData, JunkWrapped>> : e \in envs}
      forged == IF IsFalsy(store[s].selfPubKey) THEN {} ELSE
                {<<Sm4Encrypt(JsonStringifyReq(b), OutsiderSym),
                   Sm2Encrypt(OutsiderSym, store[s].selfPubKey, store[s].cipherMode)>>
                   : b \in ForgedBodies}
      garbled == UNION {{<<Sm4Encrypt(JsonStringifyReq(b), e.encryptedData.key),
                             e.encryptKey>> : b \in GarbledBodies(e)} : e \in envs}
  IN mixed \cup cut \cup garbled \cup forged \cup {<<EmptyCipherText, JunkWrapped>>}

MixCryptoDeCrypto(s) ==
  \E in \in DecryptInputs(s), needVerifySign \in BOOLEAN :
    LET res == mixCryptoDeCrypto(store[s], in[1], in[2], needVerifySign)
    IN /\ last' = Call("mixCryptoDeCrypto", s,
                        [responseData |-> in[1], secretSM4Key |-> in[2],
                         needVerifySign |-> needVerifySign],
                        res.out, res.err, res.calls, res.value)
       /\ UNCHANGED <<store, keygen, drawn, sent, pending, instance, handle>>

\* what last.value tells of a renewKeyPair call: the staged pair, the envelope
\* built, how often sendCallBack was invoked, what it resolved with, the store
\* when renewKeyPair was called, the store before this step, and whether no
\* call was made between the await and this step
Renewal(k, env, invoked, newPartnerKey, callPre, pre, quiet) ==
  [privateKey |-> Priv(k), publicKey |-> Pub(k), encryptedData |-> env,
   invoked |-> invoked, newPartnerKey |-> newPartnerKey, callPre |-> callPre,
   pre |-> pre, quiet |-> quiet]

\* a and b hold generated key pairs, each other's public key and one cipherMode
Paired(a, b) ==
  /\ a # b
  /\ \A s \in {a, b} : /\ store[s].selfPriKey.kind = "priv"
                       /\ store[s].selfPubKey = Pub(store[s].selfPriKey.id)
  /\ store[a].partnerKey = store[b].selfPubKey
  /\ store[b].partnerKey = store[a].selfPubKey
  /\ store[a].cipherMode = store[b].cipherMode

\* the stores that call renewKeyPair (the client of the test); the other store
\* is the server its handler `send` runs on
Clients == {"A"}

\* an envelope built after the new key pair is assigned
renewEnvelopeAfterAssign(st, k, n) ==
  mixCryptoEnCrypto(generateSM2Key(st, k), KeyObj(Pub(k)), n)

\* the envelope renewKeyPair builds: mixCryptoEnCrypto({ key: publicKey }),
\* called before anything is assigned
renewEnvelope(st, k, n) == mixCryptoEnCrypto(st, KeyObj(Pub(k)), n)

\* renewKeyPair(sendCallBack) up to its await. sendCallBack is either an
\* exchange that settles later ("async") or the handler `send` of the test,
\* which runs on the other store before the await
RenewKeyPair(s) ==
  \E cb \in {"async", "send"}, b \in Stores \ {s} :
    /\ s \in Clients
    /\ UNCHANGED <<instance, handle>>
    /\ Cardinality(pending[s]) < MaxPending
    /\ keygen < MaxKeys
    /\ LET k == keygen + 1
           requestData == KeyObj(Pub(k))
           enc == renewEnvelope(store[s], k, drawn + 1)
           draws == DrawsKey(store[s], requestData)
           arg == [sendCallBack |-> cb, server |-> b, paired |-> Paired(s, b),
                   reason |-> ""]
           calls == <<"sm2.generateKeyPairHex">> \o enc.calls
           r == send(store[b], enc.value, k + 1)
           suspended(ret) == [k |-> k, encryptedData |-> enc.value, arg |-> arg,
                              ret |-> ret, invoked |-> 1, callPre |-> store[s]]
       IN /\ draws => drawn < MaxSym
          /\ drawn' = IF draws THEN drawn + 1 ELSE drawn
          /\ IF enc.out = "throw"
             THEN /\ keygen' = k
                  /\ last' = Call("renewKeyPair", s, arg, "throw", enc.err, calls,
                                  Renewal(k, Nothing, 0, NoKey, store[s], store[s], TRUE))
                  /\ UNCHANGED <<store, sent, pending>>
             ELSE /\ sent' = sent \cup {Sent(s, requestData, enc.value)}
                  /\ IF cb = "async"
                     THEN /\ keygen' = k
                          /\ pending' = [pending EXCEPT ![s] = @ \cup {suspended(NoKey)}]
                          /\ last' = Call("renewKeyPair", s, arg, "await", "", calls,
                                          Renewal(k, enc.value, 1, NoKey, store[s],
                                                  store[s], TRUE))
                          /\ UNCHANGED store
                     ELSE /\ keygen + 1 + r.keys <= MaxKeys
                          /\ keygen' = k + r.keys
                          /\ store' = [store EXCEPT ![b] = r.server]
                          /\ IF r.out = "throw"
                             THEN /\ last' = Call("renewKeyPair", s, arg, "throw", r.err,
                                                  calls,
                                                  Renewal(k, enc.value, 1, NoKey,
                                                          store[s], store[s], TRUE))
                                  /\ UNCHANGED pending
                             ELSE /\ pending' = [pending EXCEPT ![s] =
                                                   @ \cup {suspended(r.ret)}]
                                  /\ last' = Call("renewKeyPair", s, arg, "await", "",
                                                  calls,
                                                  Renewal(k, enc.value, 1, r.ret,
                                                          store[s], store[s], TRUE))

\* no call was made between the await of renewal p of s and now
Quiet(s, p) ==
  /\ last.op = "renewKeyPair" /\ last.out = "await" /\ last.store = s
  /\ last.value.publicKey = Pub(p.k)

\* the promise of sendCallBack resolves: renewKeyPair resumes and commits
RenewResolve(s) ==
  \E p \in pending[s], newPartnerKey \in KeyInputs :
    /\ p.arg.sendCallBack = "send" => newPartnerKey = p.ret
    /\ store' = [store EXCEPT ![s] =
                   renewCommit(store[s], Priv(p.k), Pub(p.k), newPartnerKey)]
    /\ pending' = [pending EXCEPT ![s] = @ \ {p}]
    /\ last' = Call("renewKeyPair", s, p.arg, "ok", "", <<>>,
                    Renewal(p.k, p.encryptedData, p.invoked, newPartnerKey,
                            p.callPre, store[s], Quiet(s, p)))
    /\ UNCHANGED <<keygen, drawn, sent, instance, handle>>

\* a renewKeyPair that assigns the new key pair before the await: when the
\* promise rejects the store holds it
RenewRejectAssigned(s) ==
  \E p \in pending[s], reason \in Failures :
    /\ p.arg.sendCallBack = "async"
    /\ store' = [store EXCEPT ![s] = generateSM2Key(store[s], p.k)]
    /\ pending' = [pending EXCEPT ![s] = @ \ {p}]
    /\ last' = Call("renewKeyPair", s, [p.arg EXCEPT !.reason = reason], "throw",
                    reason, <<>>,
                    Renewal(p.k, p.encryptedData, p.invoked, NoKey, p.callPre,
                            store[s], Quiet(s, p)))
    /\ UNCHANGED <<keygen, drawn, sent, instance, handle>>

\* the promise of sendCallBack rejects: renewKeyPair rejects with its reason
RenewReject(s) ==
  \E p \in pending[s], reason \in Failures :
    /\ p.arg.sendCallBack = "async"
    /\ pending' = [pending EXCEPT ![s] = @ \ {p}]
    /\ last' = Call("renewKeyPair", s, [p.arg EXCEPT !.reason = reason], "throw",
                    reason, <<>>,
                    Renewal(p.k, p.encryptedData, p.invoked, NoKey, p.callPre,
                            store[s], Quiet(s, p)))
    /\ UNCHANGED <<store, keygen, drawn, sent, instance, handle>>

\* the key lifecycle: the stores start empty and their keys are generated,
\* exchanged, reset and renewed
Next ==
  \E s \in Stores :
    \/ GenerateSM2Key(s)
    \/ AcceptPartnerKey(s)
    \/ ResetKeyPair(s)
    \/ RenewKeyPair(s)
    \/ RenewResolve(s)
    \/ RenewReject(s)

Spec == Init /\ [][Next]_vars

\* the hybrid cipher: the stores hold keys the lifecycle can leave them with
\* (A its pair 2 or none and as partner key none, a public key of a store or
\* the stale public key 1; B its pair 3 and as partner key none or a public
\* key of a store) and encrypt and decrypt
InitCipher ==
  /\ \E c \in CipherModes, ka \in {0, 2}, kb \in {3}, pa \in 0..3, pb \in {0, 2, 3} :
       LET key(k) == IF k = 0 THEN NoKey ELSE Pub(k)
           held(k) == IF k = 0 THEN NoKey ELSE Priv(k)
       IN store = [s \in Stores |->
                     IF s = "A"
                     THEN [cipherMode |-> 1, selfPriKey |-> held(ka),
                           selfPubKey |-> key(ka), partnerKey |-> key(pa)]
                     ELSE [cipherMode |-> c, selfPriKey |-> held(kb),
                           selfPubKey |-> key(kb), partnerKey |-> key(pb)]]
  /\ keygen = 3
  /\ drawn = 0
  /\ sent = {}
  /\ pending = [s \in Stores |-> {}]
  /\ last = [op |-> "constructor", store |-> "A", out |-> "ok", err |-> "",
             calls |-> <<>>, arg |-> Nothing, value |-> Nothing]
  /\ TwoProcesses

NextCipher ==
  \E s \in Stores :
    \/ MixCryptoEnCrypto(s)
    \/ MixCryptoDeCrypto(s)

SpecCipher == InitCipher /\ [][NextCipher]_vars

\* encryption next to renewal: the stores hold keys the lifecycle can leave
\* them with, encrypt payloads and renew their key pair
NextFresh ==
  \E s \in Stores :
    \/ MixCryptoEnCrypto(s)
    \/ RenewKeyPair(s)
    \/ RenewResolve(s)
    \/ RenewReject(s)

SpecFresh == InitCipher /\ [][NextFresh]_vars

\* the stores after the key exchange of the test: each holds a generated pair
\* and the public key of the other
InitPaired ==
  /\ \E c \in CipherModes :
       store = [s \in Stores |->
                  IF s = "A"
                  THEN [cipherMode |-> 1, selfPriKey |-> Priv(1), selfPubKey |-> Pub(1),
                        partnerKey |-> Pub(2)]
                  ELSE [cipherMode |-> c, selfPriKey |-> Priv(2), selfPubKey |-> Pub(2),
                        partnerKey |-> Pub(1)]]
  /\ keygen = 2
  /\ drawn = 0
  /\ sent = {}
  /\ pending = [s \in Stores |-> {}]
  /\ last = [op |-> "acceptPartnerKey", store |-> "B", out |-> "ok", err |-> "",
             calls |-> <<>>, arg |-> [key |-> Pub(1)], value |-> Nothing]
  /\ TwoProcesses

\* calls made on one store while its renewKeyPair is suspended: the client
\* of the paired stores renews, and generates, accepts, resets and encrypts
\* in between; the server acts in the handler `send`
NextSuspended ==
  \E s \in Clients :
    \/ GenerateSM2Key(s)
    \/ AcceptPartnerKey(s)
    \/ ResetKeyPair(s)
    \/ MixCryptoEnCrypto(s)
    \/ RenewKeyPair(s)
    \/ RenewResolve(s)
    \/ RenewReject(s)

SpecSuspended == InitPaired /\ [][NextSuspended]_vars

\* new MixEncryption(options): every field comes from the options
construct(options) ==
  [cipherMode |-> options.cipherMode, selfPriKey |-> options.selfPriKey,
   selfPubKey |-> options.selfPubKey, partnerKey |-> options.partnerKey]

\* options callers pass to getCryptoInstance: none ({}: cipherMode 1, the keys
\* ""), or cipherMode 0 with a cached key pair and partner key
Options ==
  {[cipherMode |-> 1, selfPriKey |-> NoKey, selfPubKey |-> NoKey, partnerKey |-> NoKey],
   [cipherMode |-> 0, selfPriKey |-> Priv(1), selfPubKey |-> Pub(1), partnerKey |-> Pub(2)]}

\* getCryptoInstance(options) with the module variable holding inst; fresh
\* names the store `new MixEncryption` would make
getCryptoInstance(inst, options, fresh) ==
  IF inst = None
  THEN [instance |-> fresh, constructed |-> TRUE]
  ELSE [instance |-> inst, constructed |-> FALSE]

\* the process that runs the test, with both constants in it
TestProcess == "A"
\* the store a `new MixEncryption` made for constant h would be
NewObject(h) == IF h = "client" THEN "A" ELSE "B"

\* const h = getCryptoInstance(options)
GetCryptoInstance(h) ==
  \E options \in Options :
    LET r == getCryptoInstance(instance[TestProcess], options, NewObject(h))
    IN /\ instance' = [instance EXCEPT ![TestProcess] = r.instance]
       /\ store' = IF r.constructed
                   THEN [store EXCEPT ![r.instance] = construct(options)]
                   ELSE store
       /\ handle' = [handle EXCEPT ![h] = r.instance]
       /\ last' = Call("getCryptoInstance", r.instance,
                       [options |-> options, handle |-> h], "ok", "", <<>>,
                       [constructed |-> r.constructed])
       /\ UNCHANGED <<keygen, drawn, sent, pending>>

\* one process, as in the test: nothing is constructed yet; the key pairs 1
\* and 2 are the cached ones the options name
InitFactory ==
  /\ store = [s \in Stores |-> NewStore(1)]
  /\ keygen = 2
  /\ drawn = 0
  /\ sent = {}
  /\ pending = [s \in Stores |-> {}]
  /\ last = [op |-> "import", store |-> "A", out |-> "ok", err |-> "",
             calls |-> <<>>, arg |-> Nothing, value |-> Nothing]
  /\ instance = [p \in Stores |-> None]
  /\ handle = [h \in Handles |-> None]

\* the constants are obtained from the factory and the synchronous key
\* methods are called through them
NextFactory ==
  \E h \in Handles :
    \/ GetCryptoInstance(h)
    \/ handle[h] # None /\ GenerateSM2Key(handle[h])
    \/ handle[h] # None /\ AcceptPartnerKey(handle[h])
    \/ handle[h] # None /\ ResetKeyPair(handle[h])

SpecFactory == InitFactory /\ [][NextFactory]_vars

(* ------------------------------ the claims ----------------------------- *)
\* the two class errors the specification calls UninitializedKey
UninitializedKey == {"Public key not initialized", "Private key not initialized"}

\* the last call was mixCryptoDeCrypto of the whole envelope m
DecryptedWhole(m) ==
  /\ last.op = "mixCryptoDeCrypto"
  /\ last.arg.responseData = m.env.encryptedData
  /\ last.arg.secretSM4Key = m.env.encryptKey

\* C1, as stated: when B decrypts, with verification, what its paired peer A
\* returned from encrypt(P), it gets P back, for every structured payload P.
C1_RoundTripEveryPayload ==
  \A m \in sent :
    (DecryptedWhole(m) /\ last.arg.needVerifySign /\ Paired(m.from, last.store))
      => (last.out = "ok" /\ last.value = m.requestData)

\* C1, amended: the paired peer's verified decrypt succeeds and returns
\* JSON.parse(JSON.stringify(P)), which is P when JSON represents P faithfully.
C1_RoundTripJson ==
  \A m \in sent :
    (DecryptedWhole(m) /\ last.arg.needVerifySign /\ Paired(m.from, last.store))
      => /\ last.out = "ok"
         /\ last.value = JsonParse(JsonStringify(m.requestData))
         /\ (m.requestData = JsonParse(JsonStringify(m.requestData))
               => last.value = m.requestData)

C1_Witness ==
  \E m \in sent :
    /\ DecryptedWhole(m) /\ last.arg.needVerifySign /\ Paired(m.from, last.store)
    /\ last.out = "ok" /\ last.value = m.requestData /\ m.requestData = Obj(1)

\* the last call was a mixCryptoEnCrypto that returned a result
Encrypted == last.op = "mixCryptoEnCrypto" /\ last.out = "ok"

\* the store that made the last call cannot decrypt what that call returned
OwnDecryptFails ==
  \A v \in BOOLEAN :
    mixCryptoDeCrypto(store[last.store], last.value.encryptedData,
                      last.value.encryptKey, v).out = "throw"

\* the wrapped key of the last call is the key drawn for it, under the partner
\* key of the calling store, and no other private key unwraps it
WrappedForPartner ==
  LET st == store[last.store]
      wk == last.value.encryptKey
  IN /\ wk = Sm2Encrypt(generateSM4key(drawn), st.partnerKey, st.cipherMode)
     /\ last.value.encryptedData.key = generateSM4key(drawn)
     /\ \A k \in 1..MaxKeys, c \in CipherModes :
          Sm2Decrypt(wk, Priv(k), c) # NoSym
            => (Pub(k) = st.partnerKey /\ c = st.cipherMode)

\* C2, as stated: the wrapped key is made under the stored partner key, never
\* under the local public key, and the sender cannot decrypt its own output.
C2_NeverUnderLocalKey ==
  Encrypted
    => /\ WrappedForPartner
       /\ Pub(last.value.encryptKey.pub) # store[last.store].selfPubKey
       /\ OwnDecryptFails

\* C2, amended: the wrapped key is made under the stored partner key whatever
\* the local public key is; only the private key of that partner key unwraps
\* it, and the sender cannot decrypt its own output unless the partner key it
\* holds is its own public key.
C2_WrappedUnderPartnerKey ==
  Encrypted
    => /\ WrappedForPartner
       /\ (store[last.store].partnerKey # store[last.store].selfPubKey
             => /\ Pub(last.value.encryptKey.pub) # store[last.store].selfPubKey
                /\ OwnDecryptFails)

C2_Witness ==
  /\ Encrypted
  /\ store[last.store].partnerKey # store[last.store].selfPubKey
  /\ last.value.encryptKey.pub = store[last.store].partnerKey.id

\* the envelope inside cipherText ct carries a signature of the digest of its
\* data that verifies under the partner key of st
SignatureVerifies(st, ct) ==
  /\ ct.kind = "sm4"
  /\ JsonParse(ct.plain).shape = "object"
  /\ ~Sm2VerifyThrows(JsonParse(ct.plain).signValueHex, st.partnerKey)
  /\ Sm2Verify(MD5(JsonStringify(JsonParse(ct.plain).data)),
               JsonParse(ct.plain).signValueHex, st.partnerKey)

\* C3: with needVerifySign true, mixCryptoDeCrypto returns the data of the
\* envelope only if its signature verifies, under the partner key stored, over
\* the digest of that data; otherwise it throws and returns nothing.
C3_VerifiedOrNothing ==
  (last.op = "mixCryptoDeCrypto" /\ last.arg.needVerifySign)
    => LET ct == last.arg.responseData
           good == SignatureVerifies(store[last.store], ct)
       IN /\ last.out = "ok" => (good /\ last.value = JsonParse(ct.plain).data)
          /\ ~good => (last.out = "throw" /\ last.value = Nothing)

\* a signature of other data, replayed, is refused
C3_Witness ==
  /\ last.op = "mixCryptoDeCrypto" /\ last.arg.needVerifySign
  /\ last.err = "signValueHex not match"
  /\ LET e == JsonParse(last.arg.responseData.plain)
     IN /\ e.signValueHex.kind = "sig"
        /\ Pub(e.signValueHex.signer) = store[last.store].partnerKey
        /\ e.signValueHex.msg # MD5(JsonStringify(e.data))

\* C8, as stated: mixCryptoEnCrypto on a store whose partner key is empty
\* fails with UninitializedKey and returns nothing.
C8_EmptyPartnerKeyUninitialized ==
  (last.op = "mixCryptoEnCrypto" /\ IsFalsy(store[last.store].partnerKey))
    => (last.out = "throw" /\ last.err \in UninitializedKey /\ last.value = Nothing)

\* C9: mixCryptoEnCrypto on a store whose local public key is empty throws
\* "Public key not initialized" before it calls anything.
C9_EmptyPublicKeyFirst ==
  (last.op = "mixCryptoEnCrypto" /\ IsFalsy(store[last.store].selfPubKey))
    => /\ last.out = "throw" /\ last.err = "Public key not initialized"
       /\ last.err \in UninitializedKey
       /\ last.calls = <<>> /\ last.value = Nothing

C9_Witness ==
  /\ last.op = "mixCryptoEnCrypto" /\ IsFalsy(store[last.store].selfPubKey)
  /\ ~IsFalsy(store[last.store].partnerKey)
  /\ IsObject(last.arg.requestData)
  /\ last.err = "Public key not initialized"

\* C10: mixCryptoDeCrypto on a store whose private key is empty throws
\* "Private key not initialized" before it calls anything, whatever its
\* arguments.
C10_EmptyPrivateKeyFirst ==
  (last.op = "mixCryptoDeCrypto" /\ IsFalsy(store[last.store].selfPriKey))
    => /\ last.out = "throw" /\ last.err = "Private key not initialized"
       /\ last.err \in UninitializedKey
       /\ last.calls = <<>> /\ last.value = Nothing

C10_Witness ==
  /\ last.op = "mixCryptoDeCrypto" /\ IsFalsy(store[last.store].selfPriKey)
  /\ last.arg.responseData.kind = "sm4" /\ last.arg.secretSM4Key.kind = "sm2"
  /\ ~last.arg.needVerifySign
  /\ last.err = "Private key not initialized"

\* the last step was a renewKeyPair that rejected after sendCallBack was called
RenewRejected ==
  last.op = "renewKeyPair" /\ last.out = "throw" /\ last.value.invoked = 1

\* C4: when sendCallBack rejects, renewKeyPair rejects with the same reason and
\* writes nothing: the store is as it was before the step (and as it was when
\* renewKeyPair was called, if no other call came in between), and it does not
\* hold the staged key pair.
C4_RejectKeepsKeys ==
  RenewRejected
    => /\ last.arg.sendCallBack = "async"
            => (last.err = last.arg.reason /\ last.err \in Failures)
       /\ store[last.store] = last.value.pre
       /\ last.value.quiet => store[last.store] = last.value.callPre
       /\ store[last.store].selfPriKey # last.value.privateKey
       /\ store[last.store].selfPubKey # last.value.publicKey

C4_Witness ==
  /\ RenewRejected /\ last.arg.sendCallBack = "async" /\ last.value.quiet
  /\ last.err = "timeout"
  /\ Triple(store[last.store]) = Triple(last.value.callPre)
  /\ ~IsFalsy(store[last.store].partnerKey)

\* C5: sendCallBack is invoked once; a suspended renewKeyPair has written
\* nothing (the store does not hold the staged pair, and is as it was at the
\* call until something else is called); when sendCallBack resolves with K the
\* store holds (staged private key, staged public key, K) after that one step.
C5_CommitWholeTriple ==
  /\ \A s \in Stores : \A p \in pending[s] :
       /\ p.invoked = 1
       /\ store[s].selfPriKey # Priv(p.k)
       /\ store[s].selfPubKey # Pub(p.k)
  /\ (last.op = "renewKeyPair" /\ last.out = "await")
       => (store[last.store] = last.value.callPre /\ last.value.invoked = 1)
  /\ (last.op = "renewKeyPair" /\ last.out = "ok")
       => /\ Triple(store[last.store]) =
               <<last.value.privateKey, last.value.publicKey, last.value.newPartnerKey>>
          /\ store[last.store].cipherMode = last.value.pre.cipherMode
          /\ last.value.invoked = 1

C5_Witness ==
  /\ last.op = "renewKeyPair" /\ last.out = "ok"
  /\ ~IsFalsy(last.value.newPartnerKey)
  /\ last.value.newPartnerKey # last.value.pre.partnerKey
  /\ store[last.store].partnerKey = last.value.newPartnerKey
  /\ store[last.store].selfPriKey = last.value.privateKey

\* the last step committed a renewal of the test's scenario: the stores were
\* paired when renewKeyPair(send) was called and nothing else was called
\* before it resumed
RenewedWithSend ==
  /\ last.op = "renewKeyPair" /\ last.out = "ok"
  /\ last.arg.sendCallBack = "send" /\ last.arg.paired /\ last.value.quiet

\* a's encrypt of P followed by b's verified decrypt returns P's JSON value
RoundTripSucceeds(a, b, P) ==
  LET enc == mixCryptoEnCrypto(store[a], P, drawn + 1)
      dec == mixCryptoDeCrypto(store[b], enc.value.encryptedData,
                               enc.value.encryptKey, TRUE)
  IN enc.out = "ok" /\ dec.out = "ok" /\ dec.value = JsonParse(JsonStringify(P))

\* C6: paired stores A and B, A calls renewKeyPair(send): the call does not
\* fail, and once it has resumed A's partner key is B's new public key, B's
\* partner key is A's new public key, and a verified round trip from A to B
\* succeeds.
C6_RenewalHandshake ==
  /\ (last.op = "renewKeyPair" /\ last.arg.sendCallBack = "send" /\ last.arg.paired)
       => last.out \in {"await", "ok"}
  /\ RenewedWithSend
       => LET a == last.store
              b == last.arg.server
          IN /\ store[a].partnerKey = store[b].selfPubKey
             /\ store[b].partnerKey = store[a].selfPubKey
             /\ store[a].selfPubKey = last.value.publicKey
             /\ store[a].selfPubKey # last.value.callPre.selfPubKey
             /\ store[b].selfPubKey # last.value.callPre.partnerKey
             /\ Paired(a, b)
             /\ \A P \in {Q \in Payloads : IsObject(Q)} : RoundTripSucceeds(a, b, P)

C6_Witness ==
  /\ RenewedWithSend
  /\ store[last.store].partnerKey = store[last.arg.server].selfPubKey
  /\ RoundTripSucceeds(last.store, last.arg.server, Obj(1))

\* a store holding the keys the peer of st holds: the private key of st's
\* partner key, and st's public key as its partner key
PeerOf(st) ==
  [cipherMode |-> st.cipherMode, selfPriKey |-> Priv(st.partnerKey.id),
   selfPubKey |-> st.partnerKey, partnerKey |-> st.selfPubKey]

\* C7: the envelope handed to sendCallBack carries { key: new public key }, is
\* signed with the private key held when renewKeyPair was called and wrapped
\* under the partner key held then, so the peer holding those keys decrypts it
\* with verification.
C7_EnvelopeUnderOldKeys ==
  (last.op = "renewKeyPair" /\ last.value.invoked = 1)
    => LET e == last.value.encryptedData
           pre == last.value.callPre
           request == KeyObj(last.value.publicKey)
           res == mixCryptoDeCrypto(PeerOf(pre), e.encryptedData, e.encryptKey, TRUE)
       IN /\ last.value.publicKey # pre.selfPubKey
          /\ JsonParse(e.encryptedData.plain) =
               Envelope(request, Sm2Sign(MD5(JsonStringify(request)), pre.selfPriKey))
          /\ e.encryptKey = Sm2Encrypt(e.encryptedData.key, pre.partnerKey, pre.cipherMode)
          /\ res.out = "ok" /\ res.value = request

C7_Witness ==
  /\ last.op = "renewKeyPair" /\ last.value.invoked = 1 /\ last.out = "await"
  /\ last.arg.sendCallBack = "async"
  /\ last.value.encryptedData.encryptKey.pub = last.value.callPre.partnerKey.id

\* the library calls of the last call, as a set
LastCalls == {last.calls[i] : i \in DOMAIN last.calls}

\* wrappedKey opens under the private key of st to the key cipherText was
\* made under, and cipherText holds an envelope object
OpensFor(st, cipherText, wrappedKey) ==
  /\ ~Sm2DecryptThrows(wrappedKey, st.selfPriKey)
  /\ ~Sm4DecryptThrows(cipherText, Sm2Decrypt(wrappedKey, st.selfPriKey, st.cipherMode))
  /\ JsonParse(cipherText.plain).shape = "object"

\* the last call was mixCryptoDeCrypto(.., .., false) on a store that holds a
\* private key and no partner key
BootstrapDecrypt ==
  /\ last.op = "mixCryptoDeCrypto" /\ ~last.arg.needVerifySign
  /\ ~IsFalsy(store[last.store].selfPriKey)
  /\ IsFalsy(store[last.store].partnerKey)

\* C11: mixCryptoDeCrypto with needVerifySign false, on a store with a private
\* key and no partner key, never calls md5 or sm2.doVerifySignature and
\* returns the data of every envelope that opens under the store's key,
\* whatever signature it carries.
C11_BootstrapSkipsVerify ==
  BootstrapDecrypt
    => /\ "sm2.doVerifySignature" \notin LastCalls
       /\ "md5" \notin LastCalls
       /\ last.err # "signValueHex not match"
       /\ OpensFor(store[last.store], last.arg.responseData, last.arg.secretSM4Key)
            => /\ last.out = "ok"
               /\ last.value = JsonParse(last.arg.responseData.plain).data

\* an envelope with a junk signature is returned
C11_Witness ==
  /\ BootstrapDecrypt /\ last.out = "ok"
  /\ JsonParse(last.arg.responseData.plain).signValueHex = JunkSig
  /\ last.value = Obj(1)

\* how often the last call called x
CallCount(x) == Cardinality({i \in DOMAIN last.calls : last.calls[i] = x})

\* the last step ran mixCryptoEnCrypto, called directly or by renewKeyPair
RanEncrypt ==
  \/ last.op = "mixCryptoEnCrypto"
  \/ last.op = "renewKeyPair" /\ last.out \in {"await", "throw"} /\ last.arg.reason = ""

\* the last run of mixCryptoEnCrypto got past its two guards
PastGuards ==
  IF last.op = "mixCryptoEnCrypto"
  THEN ~IsFalsy(store[last.store].selfPubKey) /\ IsObject(last.arg.requestData)
  ELSE ~IsFalsy(last.value.callPre.selfPubKey)

\* every envelope has a key of its own, which is the key its wrappedKey wraps,
\* and a run of mixCryptoEnCrypto draws once (not at all when a guard throws)
FreshKeys ==
  /\ \A m1, m2 \in sent :
       m1 # m2 => /\ m1.env.encryptedData.key # m2.env.encryptedData.key
                  /\ m1.env.encryptKey # m2.env.encryptKey
  /\ \A m \in sent : /\ m.env.encryptKey.msg = m.env.encryptedData.key
                     /\ m.env.encryptedData.key.id \in 1..drawn
  /\ Cardinality(sent) <= drawn
  /\ RanEncrypt => CallCount("getRandomValues") = IF PastGuards THEN 1 ELSE 0

\* a step from one returned envelope to the next
NextEnvelope ==
  /\ last.op \in {"mixCryptoEnCrypto", "renewKeyPair"} /\ last.out \in {"ok", "await"}
  /\ last'.op = "mixCryptoEnCrypto" /\ last'.out = "ok"

\* C12: every run of mixCryptoEnCrypto that gets past its guards, the one
\* inside renewKeyPair included, draws exactly one key; no key serves two
\* envelopes; two successive encrypts (of the same payload too) return
\* different wrappedKey values.
C12_FreshKeyEveryCall ==
  /\ []FreshKeys
  /\ [][(last.op = "mixCryptoEnCrypto" /\ last.out = "ok" /\ NextEnvelope)
          => /\ last'.value.encryptKey # last.value.encryptKey
             /\ last'.value.encryptedData.key # last.value.encryptedData.key]_vars

\* the same store has encrypted the same payload twice
C12_Witness ==
  /\ last.op = "mixCryptoEnCrypto" /\ last.out = "ok" /\ drawn = 2
  /\ Cardinality({m \in sent : m.from = last.store
                                /\ m.requestData = last.arg.requestData}) = 2

\* the error the specification calls InvalidArgument
InvalidArgument == "partner public key must be a string"

\* C13: acceptPartnerKey with an empty key throws InvalidArgument and changes
\* no field of any store; with a non-empty key it stores that key as the
\* partner key, whatever was stored before, and changes nothing else.
C13_AcceptPartnerKey ==
  [][last'.op = "acceptPartnerKey"
       => LET s == last'.store
              key == last'.arg.key
          IN IF IsFalsy(key)
             THEN /\ last'.out = "throw" /\ last'.err = InvalidArgument
                  /\ store' = store
             ELSE /\ last'.out = "ok"
                  /\ store' = [store EXCEPT ![s].partnerKey = key]
                  /\ store'[s].partnerKey = key
                  /\ store'[s].selfPriKey = store[s].selfPriKey
                  /\ store'[s].selfPubKey = store[s].selfPubKey]_vars

\* a store that holds a key pair has accepted the current public key of the
\* other store, which is not the first key pair generated
C13_Witness ==
  /\ last.op = "acceptPartnerKey" /\ last.out = "ok"
  /\ store[last.store].partnerKey = last.arg.key
  /\ ~IsFalsy(store[last.store].selfPriKey)
  /\ \E t \in Stores \ {last.store} : store[t].selfPubKey = last.arg.key
  /\ last.arg.key.id > 2

\* store s holds no local key
Cleared(s) == IsFalsy(store[s].selfPriKey) /\ IsFalsy(store[s].selfPubKey)

\* every mixCryptoEnCrypto and every mixCryptoDeCrypto on store s would throw
\* one of the two UninitializedKey errors, before calling anything
EveryCallFails(s) ==
  /\ \A P \in Payloads \cup {KeyObj(Pub(1))} :
       LET r == mixCryptoEnCrypto(store[s], P, drawn + 1)
       IN r.out = "throw" /\ r.err \in UninitializedKey /\ r.calls = <<>>
  /\ \A in \in DecryptInputs(s), v \in BOOLEAN :
       LET r == mixCryptoDeCrypto(store[s], in[1], in[2], v)
       IN r.out = "throw" /\ r.err \in UninitializedKey /\ r.calls = <<>>

\* a resetKeyPair step empties the three key fields of its store and changes
\* nothing else
ResetClears ==
  last'.op = "resetKeyPair"
    => /\ Triple(store'[last'.store]) = <<NoKey, NoKey, NoKey>>
       /\ store' = [store EXCEPT ![last'.store] = NewStore(@.cipherMode)]

\* the step is generateSM2Key on s
GenerateStep(s) == last'.op = "generateSM2Key" /\ last'.store = s
\* the step is the commit of a renewKeyPair of s that was suspended
CommitStep(s) ==
  /\ last'.op = "renewKeyPair" /\ last'.out = "ok" /\ last'.store = s
  /\ pending[s] # {}

\* C14, as stated: resetKeyPair empties the three fields together, and from
\* then on every encrypt and decrypt fails with UninitializedKey until
\* generateSM2Key is called again.
C14_FailsUntilGenerate ==
  /\ [][ResetClears]_vars
  /\ [](\A s \in Stores : Cleared(s) => EveryCallFails(s))
  /\ [][\A s \in Stores : (Cleared(s) /\ ~GenerateStep(s)) => Cleared(s)']_vars

\* C14, amended: resetKeyPair empties the three fields together; while the
\* local keys are empty every encrypt and decrypt fails with
\* UninitializedKey; they stay empty until generateSM2Key is called again or
\* a renewKeyPair that was suspended when resetKeyPair ran commits.
C14_FailsUntilKeysStored ==
  /\ [][ResetClears]_vars
  /\ [](\A s \in Stores : Cleared(s) => EveryCallFails(s))
  /\ [][\A s \in Stores :
          (Cleared(s) /\ ~GenerateStep(s) /\ ~CommitStep(s)) => Cleared(s)']_vars

\* a store that had keys and has sent an envelope was reset
C14_Witness ==
  /\ last.op = "resetKeyPair" /\ Cleared(last.store)
  /\ IsFalsy(store[last.store].partnerKey)
  /\ \E m \in sent : m.from = last.store
  /\ EveryCallFails(last.store)

InvalidPayload == "requestData must be an Object"

\* the last call was mixCryptoEnCrypto of null or of a scalar
EncryptedNonObject ==
  last.op = "mixCryptoEnCrypto" /\ ~IsObject(last.arg.requestData)

\* C16: mixCryptoEnCrypto of null or of a scalar throws InvalidPayload,
\* returns nothing, calls nothing and changes no state; when the local public
\* key is empty as well, it throws UninitializedKey instead.
C16_NonObjectPayload ==
  /\ [](EncryptedNonObject
          => /\ last.out = "throw" /\ last.value = Nothing /\ last.calls = <<>>
             /\ last.err = IF IsFalsy(store[last.store].selfPubKey)
                           THEN "Public key not initialized"
                           ELSE InvalidPayload
             /\ IsFalsy(store[last.store].selfPubKey) => last.err \in UninitializedKey)
  /\ [][EncryptedNonObject' => UNCHANGED <<store, keygen, drawn, sent, pending>>]_vars

\* null is refused on a store that holds both keys
C16_Witness ==
  /\ EncryptedNonObject /\ last.arg.requestData = Null
  /\ last.err = InvalidPayload
  /\ ~IsFalsy(store[last.store].selfPubKey)
  /\ ~IsFalsy(store[last.store].partnerKey)

\* the last call was a verified mixCryptoDeCrypto, by the paired peer of the
\* sender of m, of the envelope m with at least one part kept
DecryptedPartOf(m) ==
  /\ last.op = "mixCryptoDeCrypto" /\ last.arg.needVerifySign
  /\ Paired(m.from, last.store)
  /\ \/ last.arg.responseData = m.env.encryptedData
     \/ last.arg.secretSM4Key = m.env.encryptKey

\* ... with the other part replaced by a different value
DecryptedTampered(m) ==
  /\ DecryptedPartOf(m)
  /\ \/ last.arg.responseData # m.env.encryptedData
     \/ last.arg.secretSM4Key # m.env.encryptKey

\* C17: when cipherText or wrappedKey of an envelope of a paired sender is
\* replaced by a different value, the verified mixCryptoDeCrypto throws and
\* returns nothing; it never returns anything but the JSON value of the
\* payload that was encrypted.
C17_TamperDetected ==
  \A m \in sent :
    /\ DecryptedTampered(m) => (last.out = "throw" /\ last.value = Nothing)
    /\ (DecryptedPartOf(m) /\ last.out = "ok")
         => last.value = JsonParse(JsonStringify(m.requestData))

\* a cipherText changed to carry other data under the signature of the
\* envelope is refused
C17_Witness ==
  \E m \in sent :
    /\ DecryptedTampered(m)
    /\ last.arg.secretSM4Key = m.env.encryptKey
    /\ last.arg.responseData.key = m.env.encryptedData.key
    /\ JsonParse(last.arg.responseData.plain).data # JsonParse(m.env.encryptedData.plain).data
    /\ last.err = "signValueHex not match"

\* both constants hold a store
BothObtained == handle["client"] # None /\ handle["server"] # None

\* C18, as stated: the stores the factory returns for client and for server
\* are two stores, the options passed for a store take effect on it, and a
\* key method called on one store leaves the other store as it was.
C18_IndependentStores ==
  /\ [](BothObtained => handle["client"] # handle["server"])
  /\ [](last.op = "getCryptoInstance"
          => store[handle[last.arg.handle]] = construct(last.arg.options))
  /\ [][last'.op \in {"generateSM2Key", "acceptPartnerKey", "resetKeyPair"}
          => \A h \in Handles :
               (handle[h] # None /\ handle[h] # last'.store)
                 => store'[handle[h]] = store[handle[h]]]_vars

\* the last call was mixCryptoDeCrypto of the empty cipherText, with a
\* wrappedKey that is an SM2 ciphertext, on a store that holds a private key
DecryptedEmpty ==
  /\ last.op = "mixCryptoDeCrypto"
  /\ last.arg.responseData = EmptyCipherText
  /\ last.arg.secretSM4Key.kind = "sm2"
  /\ ~IsFalsy(store[last.store].selfPriKey)

\* C19, as stated: mixCryptoDeCrypto of the empty cipherText, on a store that
\* holds a private key, returns an empty result without calling sm4.decrypt
\* and does not throw, whether needVerifySign is true or false.
C19_EmptyCipherTextNoError ==
  DecryptedEmpty
    => /\ "sm4.decrypt" \notin LastCalls
       /\ last.out = "ok"
       /\ last.value = Undefined

\* the hexadecimal length of a 16-byte (128-bit) SM4 key
HexCharsOf16Bytes == 2 * 16

\* C20, as stated: the symmetric key a successful mixCryptoEnCrypto draws is
\* 16 bytes, a string of exactly 32 hexadecimal characters, in the envelope it
\* returns and under the SM2 wrapping of its encryptKey.
C20_KeyIs32HexChars ==
  (last.op = "mixCryptoEnCrypto" /\ last.out = "ok")
    => /\ last.value.encryptedData.key.hexLen = HexCharsOf16Bytes
       /\ last.value.encryptKey.msg.hexLen = HexCharsOf16Bytes

\* the parsed text is not an object with both members data and signValueHex
MalformedShape(body) ==
  \/ body.shape # "object"
  \/ body.data.kind = "undefined"
  \/ body.signValueHex.kind = "undefined"

\* the last call was a mixCryptoDeCrypto whose sm4.decrypt returned a text
\* that parses to a value of another shape than { data, signValueHex }
DecryptedMalformed ==
  /\ last.op = "mixCryptoDeCrypto"
  /\ ~IsFalsy(store[last.store].selfPriKey)
  /\ ~Sm2DecryptThrows(last.arg.secretSM4Key, store[last.store].selfPriKey)
  /\ ~Sm4DecryptThrows(last.arg.responseData,
                       Sm2Decrypt(last.arg.secretSM4Key, store[last.store].selfPriKey,
                                  store[last.store].cipherMode))
  /\ MalformedShape(JsonParse(last.arg.responseData.plain))

\* C21, as stated: when the text sm4.decrypt returns parses to a value that is
\* not of the shape { data, signValueHex }, mixCryptoDeCrypto throws and
\* returns no value, also when needVerifySign is false.
C21_MalformedEnvelopeFails ==
  DecryptedMalformed => (last.out = "throw" /\ last.value = Nothing)

\* the server of the last renewKeyPair call has done what the handler `send`
\* does with the envelope: it holds a key pair generated since the call and,
\* as its partner key, the public key the envelope carries
ServerProcessed ==
  LET b == last.arg.server
  IN /\ store[b].partnerKey = last.value.publicKey
     /\ store[b].selfPubKey.kind = "pub"
     /\ store[b].selfPubKey # last.value.callPre.partnerKey
     /\ store[b].selfPriKey = Priv(store[b].selfPubKey.id)

\* C22, as stated: paired stores A and B, A calls renewKeyPair, B processes
\* the envelope, then sendCallBack rejects: once renewKeyPair has rejected,
\* A's partner key is B's public key, B's partner key is A's public key, and
\* a verified round trip from A to B succeeds.
C22_PairedAfterFailedRenewal ==
  (RenewRejected /\ last.arg.paired /\ ServerProcessed)
    => LET a == last.store
           b == last.arg.server
       IN /\ store[a].partnerKey = store[b].selfPubKey
          /\ store[b].partnerKey = store[a].selfPubKey
          /\ RoundTripSucceeds(a, b, Obj(1))

\* the local keys of store s are both empty or the two halves of one pair
\* sm2.generateKeyPairHex has handed out
WholePair(s) ==
  \/ IsFalsy(store[s].selfPriKey) /\ IsFalsy(store[s].selfPubKey)
  \/ \E k \in 1..keygen : /\ store[s].selfPriKey = Priv(k)
                          /\ store[s].selfPubKey = Pub(k)

\* C23: in every state reached from stores constructed without keys, whatever
\* the order of generateSM2Key, resetKeyPair, acceptPartnerKey and renewKeyPair
\* calls (overlapping ones included), selfPriKey and selfPubKey of a store are
\* both empty or the two halves of one generated key pair.
C23_LocalKeysOnePair == \A s \in Stores : WholePair(s)

\* two renewKeyPair calls overlapped on one store: the later one has committed
\* its pair while the earlier one is still suspended
C23_Witness ==
  /\ last.op = "renewKeyPair" /\ last.out = "ok"
  /\ \E p \in pending[last.store] : p.k < last.value.privateKey.id
  /\ store[last.store].selfPriKey = last.value.privateKey
  /\ store[last.store].selfPubKey = last.value.publicKey

\* the last call was a mixCryptoEnCrypto that returned an envelope while a
\* renewKeyPair of the same store was suspended
EncryptedWhileSuspended ==
  /\ last.op = "mixCryptoEnCrypto" /\ last.out = "ok"
  /\ pending[last.store] # {}

\* C24: when sendCallBack resolves, renewKeyPair stores (staged private key,
\* staged public key, resolved value) whatever generateSM2Key, acceptPartnerKey
\* or resetKeyPair wrote to the store during the suspension; a
\* mixCryptoEnCrypto made during the suspension signs with the private key
\* and wraps under the partner key the store holds then, never with a staged
\* key pair.
C24_CommitUnconditional ==
  /\ (last.op = "renewKeyPair" /\ last.out = "ok")
       => Triple(store[last.store]) =
            <<last.value.privateKey, last.value.publicKey, last.value.newPartnerKey>>
  /\ EncryptedWhileSuspended
       => LET st == store[last.store]
              body == JsonParse(last.value.encryptedData.plain)
          IN /\ body.signValueHex = Sm2Sign(MD5(JsonStringify(body.data)), st.selfPriKey)
             /\ last.value.encryptKey =
                  Sm2Encrypt(last.value.encryptedData.key, st.partnerKey, st.cipherMode)
             /\ \A p \in pending[last.store] :
                  /\ body.signValueHex.signer # p.k
                  /\ st = p.callPre
                       => /\ body.signValueHex.signer = p.callPre.selfPriKey.id
                          /\ last.value.encryptKey.pub = p.callPre.partnerKey.id

\* a renewKeyPair committed over a store that was reset during its
\* suspension, after a payload was encrypted during the suspension
C24_Witness ==
  /\ last.op = "renewKeyPair" /\ last.out = "ok" /\ ~last.value.quiet
  /\ Triple(last.value.pre) = <<NoKey, NoKey, NoKey>>
  /\ ~IsFalsy(last.value.newPartnerKey)
  /\ Triple(store[last.store]) =
       <<last.value.privateKey, last.value.publicKey, last.value.newPartnerKey>>
  /\ \E m \in sent :
       /\ m.from = last.store /\ m.requestData = Obj(1)
       /\ m.env.encryptedData.key.id > last.value.encryptedData.encryptedData.key.id
       /\ JsonParse(m.env.encryptedData.plain).signValueHex.signer =
            last.value.callPre.selfPriKey.id

\* the step writes the partner key of store s: it changes it, or it is the
\* commit of a renewKeyPair of s
WritesPartnerKey(s) ==
  \/ store'[s].partnerKey # store[s].partnerKey
  \/ last'.op = "renewKeyPair" /\ last'.out = "ok" /\ last'.store = s

\* C25, as stated: only resetKeyPair stores an empty partner key; a
\* renewKeyPair whose sendCallBack resolves with an empty value does not leave
\* the store with the new key pair and an empty partner key.
C25_OnlyResetStoresEmptyPartnerKey ==
  [][\A s \in Stores :
       (WritesPartnerKey(s) /\ IsFalsy(store'[s].partnerKey))
         => last'.op = "resetKeyPair"]_vars

\* the step is a call of renewKeyPair on store s (up to its await or its
\* throw): it is the renewKeyPair step that generates a key pair
RenewCallStep(s) ==
  /\ last'.op = "renewKeyPair" /\ last'.store = s
  /\ keygen' # keygen

\* C26: renewKeyPair called on a store whose selfPubKey is empty rejects with
\* "Public key not initialized" after sm2.generateKeyPairHex and nothing else,
\* does not invoke sendCallBack, leaves both stores as they were and is not
\* suspended; the pair it generated is held nowhere.
C26_RenewWithoutKeysRejects ==
  [][\A s \in Stores :
       (RenewCallStep(s) /\ IsFalsy(store[s].selfPubKey))
         => /\ last'.out = "throw"
            /\ last'.err = "Public key not initialized"
            /\ last'.calls = <<"sm2.generateKeyPairHex">>
            /\ last'.value.invoked = 0
            /\ store' = store
            /\ pending' = pending
            /\ sent' = sent /\ drawn' = drawn
            /\ keygen' = keygen + 1
            /\ last'.value.privateKey = Priv(keygen')
            /\ \A t \in Stores : /\ store'[t].selfPriKey # Priv(keygen')
                                 /\ store'[t].selfPubKey # Pub(keygen')
                                 /\ store'[t].partnerKey # Pub(keygen')]_vars

\* renewKeyPair was called on a store that had sent an envelope and was
\* reset, and rejected; the store is still empty
C26_Witness ==
  /\ last.op = "renewKeyPair" /\ last.out = "throw"
  /\ last.err = "Public key not initialized"
  /\ last.value.invoked = 0
  /\ \E m \in sent : m.from = last.store
  /\ Triple(store[last.store]) = <<NoKey, NoKey, NoKey>>
  /\ Triple(last.value.callPre) = <<NoKey, NoKey, NoKey>>
====
